---- MODULE Spec2Model ----
(***************************************************************************)
(* Model of the MapView component of the Earthquake Visualizer             *)
(* (src/src/components/MapView.jsx, mounted by src/src/App.jsx).           *)
(*                                                                         *)
(* The component's five useState slots, the window width, the fetch        *)
(* requests in flight and the rendered view are the state; the operations  *)
(* are the completion of a request (success / failure path of              *)
(* fetchEarthquakes), the Retry, Refresh, sidebar-toggle and list-entry    *)
(* click handlers, and a change of the viewport width.                     *)
(*                                                                         *)
(* Magnitudes are in tenths (6.0 is 60).  A value that may be null in the  *)
(* feed is a tuple: <<>> is null, <<m>> is the number m.  selectedCoords   *)
(* is <<>> for null and <<lat, lon>> otherwise.                            *)
(***************************************************************************)
EXTENDS Integers, Sequences, FiniteSets, TLC

VARIABLES
    earthquakes,     \* useState([])    line 25: the stored collection
    loading,         \* useState(true)  line 26
    error,           \* useState("")    line 27
    selectedCoords,  \* useState(null)  line 28
    sidebarOpen,     \* useState(false) line 29
    coordsRef,       \* identity of the array object held by selectedCoords
    innerWidth,      \* window width in CSS pixels
    outstanding,     \* fetchEarthquakes invocations suspended at the await, in issue order
    view,            \* what React has on screen
    screen,          \* the list entries, the markers and the sidebar as displayed
    issued,          \* number of requests sent to the feed so far
    refetches,       \* number of Refresh and Retry actions so far
    flown,           \* map.flyTo calls made by the last step
    lastOp,          \* history: the last operation performed
    lastDone         \* history: the last invocation that completed, and its response

vars == <<earthquakes, loading, error, selectedCoords, sidebarOpen, coordsRef,
          innerWidth, outstanding, view, screen, issued, refetches, flown,
          lastOp, lastDone>>

---------------------------------------------------------------------------
(* Bounds of the model *)

MaxFeed == 3
MaxOverlapFeed == 1
MaxLong == 12
MaxCount == 2

(* Program constants *)

ListLimit == 10
FlyZoom == 5
Breakpoint == 768
SevereMin == 60
ModerateMin == 40
LightMin == 20

\* line 45, without its leading warning sign
FailedMessage == "Failed to fetch earthquake data."

Widths == {767, 768}

---------------------------------------------------------------------------
(* The feed *)

\* The catalogue of events a response can carry, by identifier.  Events 1 and 2
\* (and 3 and 4) have the same timestamp; event 3 has a null magnitude.
Ids == 1..4

TimeOf(id) == 100 * ((id + 1) \div 2)

MagOf(id) ==
    CASE id % 4 = 1 -> <<32>>
      [] id % 4 = 2 -> <<65>>
      [] id % 4 = 3 -> <<>>
      [] id % 4 = 0 -> <<10>>

\* geometry.coordinates of a feature: [longitude, latitude]
CoordinatesOf(id) == <<10 * id, 0 - id>>

Feature(id) ==
    [id |-> id, coordinates |-> CoordinatesOf(id), mag |-> MagOf(id), time |-> TimeOf(id)]

Features == {Feature(id) : id \in Ids}

RECURSIVE SeqsOf(_, _)
SeqsOf(S, n) ==
    IF n = 0 THEN {<<>>}
    ELSE LET shorter == SeqsOf(S, n - 1)
         IN  shorter \cup {Append(s, x) : s \in {t \in shorter : Len(t) = n - 1}, x \in S}

DistinctIds(s) == \A i, j \in 1..Len(s) : i # j => s[i].id # s[j].id

Feeds == {s \in SeqsOf(Features, MaxFeed) : DistinctIds(s)}

NoFeatures == <<>>

FailKinds == {"transport", "status", "badjson", "nofeatures"}

Responses ==
    {[kind |-> k, features |-> NoFeatures] : k \in FailKinds}
    \cup {[kind |-> "ok", features |-> f] : f \in Feeds}

\* Feeds longer than the list panel: the first n events of the catalogue that
\* have a magnitude, in ascending order of identifier (oldest first)
NthWithMagnitude(k) == 4 * ((k - 1) \div 3) + ((k - 1) % 3) + 1 + (IF (k - 1) % 3 = 2 THEN 1 ELSE 0)

LongFeed(n) == [k \in 1..n |-> Feature(NthWithMagnitude(k))]

LongFeeds == {LongFeed(n) : n \in {0, 1} \cup ((ListLimit - 1)..MaxLong)}

LongResponses ==
    {[kind |-> k, features |-> NoFeatures] : k \in FailKinds}
    \cup {[kind |-> "ok", features |-> f] : f \in LongFeeds}

\* the responses drawn while invocations overlap: the same, with shorter feeds
OverlapResponses == {r \in Responses : Len(r.features) <= MaxOverlapFeed}

---------------------------------------------------------------------------
(* Sorting: data.features.sort((a, b) => b.properties.time - a.properties.time) *)

Compare(a, b) == b.time - a.time

\* (variant: an element is placed before the elements it ties with)
InsertSorted_Unstable(s, x) ==
    LET later == {i \in 1..Len(s) : Compare(s[i], x) >= 0}
        at    == IF later = {} THEN Len(s) + 1
                 ELSE CHOOSE i \in later : \A j \in later : i <= j
    IN  SubSeq(s, 1, at - 1) \o <<x>> \o SubSeq(s, at, Len(s))

\* x is placed before the first element that the comparator orders after it,
\* and after every element it ties with: Array.prototype.sort is stable.
InsertSorted(s, x) ==
    LET later == {i \in 1..Len(s) : Compare(s[i], x) > 0}
        at    == IF later = {} THEN Len(s) + 1
                 ELSE CHOOSE i \in later : \A j \in later : i <= j
    IN  SubSeq(s, 1, at - 1) \o <<x>> \o SubSeq(s, at, Len(s))

RECURSIVE SortFrom(_, _)
SortFrom(done, rest) ==
    IF rest = <<>> THEN done
    ELSE SortFrom(InsertSorted(done, Head(rest)), Tail(rest))

SortByTime(features) == SortFrom(<<>>, features)

---------------------------------------------------------------------------
(* Rendering *)

\* `mag >= k`: null is converted to 0 by the comparison
Num(mag) == IF mag = <<>> THEN 0 ELSE mag[1]

\* lines 111-116: the class of the magnitude in a list entry
ListColor(mag) ==
    IF Num(mag) >= SevereMin THEN "red"
    ELSE IF Num(mag) >= ModerateMin THEN "orange"
    ELSE "green"

\* lines 174-175: the colour of the marker's dot
MarkerColor(mag) ==
    IF Num(mag) >= SevereMin THEN "red"
    ELSE IF Num(mag) >= ModerateMin THEN "orange"
    ELSE IF Num(mag) >= LightMin THEN "yellow"
    ELSE "green"

\* mag.toFixed(1) (lines 127 and 186) is a TypeError when mag is null
ToFixedThrows(mag) == mag = <<>>

Min(a, b) == IF a < b THEN a ELSE b

\* (variant: one entry more than the limit)
ListPanel_Eleven(eqs) == SubSeq(eqs, 1, Min(ListLimit + 1, Len(eqs)))

\* earthquakes.slice(0, 10)
ListPanel(eqs) == SubSeq(eqs, 1, Min(ListLimit, Len(eqs)))

\* the ready view's body throws if any list entry or any marker popup does
RenderThrows(eqs) ==
    \/ \E i \in 1..Len(ListPanel(eqs)) : ToFixedThrows(ListPanel(eqs)[i].mag)
    \/ \E i \in 1..Len(eqs) : ToFixedThrows(eqs[i].mag)

\* The body of MapView, lines 57-79.  An error thrown while rendering is caught
\* by no error boundary: React unmounts the whole tree, and it stays unmounted.
Render(before, l, e, eqs) ==
    IF before = "unmounted" THEN "unmounted"
    ELSE IF l THEN "loading"
    ELSE IF e # "" THEN "failed"
    ELSE IF RenderThrows(eqs) THEN "unmounted"
    ELSE "ready"

\* (variant: the Refresh button is shown next to the busy indicator)
Elements_RefreshWhileLoading(v) ==
    CASE v = "loading"   -> {"busy", "refresh"}
      [] v = "failed"    -> {"message", "retry"}
      [] v = "ready"     -> {"toggle", "sidebar", "refresh", "list", "legend", "map"}
      [] v = "unmounted" -> {}

\* What each view puts in the document
Elements(v) ==
    CASE v = "loading"   -> {"busy"}
      [] v = "failed"    -> {"message", "retry"}
      [] v = "ready"     -> {"toggle", "sidebar", "refresh", "list", "legend", "map"}
      [] v = "unmounted" -> {}

\* md:hidden (line 83): the toggle button is not displayed from the breakpoint up
ToggleDisplayed(v, w) == "toggle" \in Elements(v) /\ w < Breakpoint

\* (variant: the class list lacks md:translate-x-0)
SidebarVisible_NoWideRule(v, open, w) == "sidebar" \in Elements(v) /\ open

\* line 92: translate-x-0 when open, -translate-x-full md:translate-x-0 otherwise
SidebarVisible(v, open, w) == "sidebar" \in Elements(v) /\ (open \/ w >= Breakpoint)

\* slice copies: the array it was called on (line 107) is what line 169 maps
AfterSlice(eqs) == eqs

\* lines 169-192: one Marker for each element of earthquakes
Markers(eqs) == AfterSlice(eqs)

\* What is displayed of the collection and of the sidebar
Screen(v, eqs, open, w) ==
    [list    |-> IF "list" \in Elements(v) THEN ListPanel(eqs) ELSE <<>>,
     markers |-> IF "map" \in Elements(v) THEN Markers(eqs) ELSE <<>>,
     sidebar |-> SidebarVisible(v, open, w)]

\* (variant: the effect has no dependency array and runs after every render)
DepsChanged_EveryRender(refBefore, refAfter) == TRUE

\* FlyToLocation, lines 16-22: the effect runs when the component mounts and
\* when its dependency [coordinates] is a different object than at the last render
DepsChanged(refBefore, refAfter) == refBefore # refAfter

FlyToCalls(vBefore, vAfter, refBefore, refAfter, coords) ==
    IF /\ "map" \in Elements(vAfter)
       /\ ("map" \notin Elements(vBefore) \/ DepsChanged(refBefore, refAfter))
       /\ coords # <<>>
    THEN <<[target |-> coords, zoom |-> FlyZoom]>>
    ELSE <<>>

---------------------------------------------------------------------------
(* History: the last operation and its inputs *)

NoResponse == [kind |-> "none", features |-> NoFeatures]

\* entry: the list entry clicked; same: it was the entry already selected
Op(name, origin, entry, same) ==
    [op |-> name, origin |-> origin, entry |-> entry, same |-> same]

\* pos of among: the completed invocation's place, in issue order, among those
\* outstanding when it completed
Done(origin, pos, among, resp) ==
    [origin |-> origin, pos |-> pos, among |-> among, resp |-> resp]

RemoveAt(s, i) == SubSeq(s, 1, i - 1) \o SubSeq(s, i + 1, Len(s))

\* the two totals are counted up to MaxCount refetches and stay there
CountRequest(n) == IF n <= MaxCount THEN n + 1 ELSE n
CountRefetch(n) == IF n < MaxCount THEN n + 1 ELSE n

---------------------------------------------------------------------------
(* Initial state: the useState initial values (lines 25-29), the first      *)
(* render (loading view) and the mount effect (lines 51-55), which has      *)
(* called fetchEarthquakes once.                                           *)

Mounted(requests) ==
    /\ earthquakes = <<>>
    /\ loading = TRUE
    /\ error = ""
    /\ selectedCoords = <<>>
    /\ sidebarOpen = FALSE
    /\ coordsRef = 0
    /\ innerWidth \in Widths
    /\ outstanding = requests
    /\ view = "loading"
    /\ screen = Screen(view, earthquakes, sidebarOpen, innerWidth)
    /\ issued = Len(requests)
    /\ refetches = 0
    /\ flown = <<>>
    /\ lastOp = Op("mount", "mount", 0, FALSE)
    /\ lastDone = Done("none", 0, 0, NoResponse)

Init == Mounted(<<"mount">>)

\* The mount effect run twice before any response arrives, as React's
\* StrictMode does in a development build: two invocations are suspended.
InitOverlap == Mounted(<<"mount", "remount">>)

---------------------------------------------------------------------------
(* fetchEarthquakes, lines 31-49 *)

\* (variant: the flag is left as it is when the request is sent)
LoadingOnInvoke_Unset == loading

\* lines 33-36: setLoading(true), then the request is sent and the call suspends
LoadingOnInvoke == TRUE

\* (variant: starting a fetch also drops the selection)
Invoke_ClearsSelection(origin) ==
    /\ loading' = LoadingOnInvoke
    /\ outstanding' = Append(outstanding, origin)
    /\ selectedCoords' = <<>>
    /\ view' = Render(view, loading', error, earthquakes)
    /\ screen' = Screen(view', earthquakes, sidebarOpen, innerWidth)
    /\ issued' = CountRequest(issued)
    /\ flown' = FlyToCalls(view, view', coordsRef, coordsRef, selectedCoords')
    /\ lastOp' = Op(origin, origin, 0, FALSE)
    /\ UNCHANGED <<earthquakes, error, sidebarOpen, coordsRef, innerWidth, lastDone>>

Invoke(origin) ==
    /\ loading' = LoadingOnInvoke
    /\ outstanding' = Append(outstanding, origin)
    /\ view' = Render(view, loading', error, earthquakes)
    /\ screen' = Screen(view', earthquakes, sidebarOpen, innerWidth)
    /\ issued' = CountRequest(issued)
    /\ flown' = FlyToCalls(view, view', coordsRef, coordsRef, selectedCoords)
    /\ lastOp' = Op(origin, origin, 0, FALSE)
    /\ UNCHANGED <<earthquakes, error, selectedCoords, sidebarOpen, coordsRef,
                   innerWidth, lastDone>>

\* the collection stored by the success path, lines 38-42
StoredOnSuccess(resp) == SortByTime(resp.features)

\* (variant: the success path leaves the message alone)
ErrorOnSuccess_Kept == error

\* the message stored by the success path, line 43
ErrorOnSuccess == ""

\* (variant: a completion stores its result only if no invocation issued after
\* it is still outstanding; a stale one only clears the loading flag)
CompleteOk_NewestOnly(i, resp) ==
    /\ i \in 1..Len(outstanding)
    /\ resp.kind = "ok"
    /\ earthquakes' = IF i = Len(outstanding) THEN StoredOnSuccess(resp) ELSE earthquakes
    /\ error' = IF i = Len(outstanding) THEN ErrorOnSuccess ELSE error
    /\ loading' = FALSE
    /\ outstanding' = RemoveAt(outstanding, i)
    /\ view' = Render(view, loading', error', earthquakes')
    /\ screen' = Screen(view', earthquakes', sidebarOpen, innerWidth)
    /\ flown' = FlyToCalls(view, view', coordsRef, coordsRef, selectedCoords)
    /\ lastOp' = Op("completeOk", outstanding[i], 0, FALSE)
    /\ lastDone' = Done(outstanding[i], i, Len(outstanding), resp)
    /\ UNCHANGED <<selectedCoords, sidebarOpen, coordsRef, innerWidth, issued, refetches>>

\* lines 37-43 and 46-48: res.ok, the payload decodes and has a features array
CompleteOk(i, resp) ==
    /\ i \in 1..Len(outstanding)
    /\ resp.kind = "ok"
    /\ earthquakes' = StoredOnSuccess(resp)
    /\ error' = ErrorOnSuccess
    /\ loading' = FALSE
    /\ outstanding' = RemoveAt(outstanding, i)
    /\ view' = Render(view, loading', error', earthquakes')
    /\ screen' = Screen(view', earthquakes', sidebarOpen, innerWidth)
    /\ flown' = FlyToCalls(view, view', coordsRef, coordsRef, selectedCoords)
    /\ lastOp' = Op("completeOk", outstanding[i], 0, FALSE)
    /\ lastDone' = Done(outstanding[i], i, Len(outstanding), resp)
    /\ UNCHANGED <<selectedCoords, sidebarOpen, coordsRef, innerWidth, issued, refetches>>

\* (variant: the catch block sends the request again by itself)
CompleteFail_AutoRetry(i, resp) ==
    /\ i \in 1..Len(outstanding)
    /\ resp.kind \in FailKinds
    /\ error' = FailedMessage
    /\ loading' = TRUE
    /\ outstanding' = Append(RemoveAt(outstanding, i), "auto")
    /\ issued' = CountRequest(issued)
    /\ view' = Render(view, loading', error', earthquakes)
    /\ screen' = Screen(view', earthquakes, sidebarOpen, innerWidth)
    /\ flown' = FlyToCalls(view, view', coordsRef, coordsRef, selectedCoords)
    /\ lastOp' = Op("completeFail", outstanding[i], 0, FALSE)
    /\ lastDone' = Done(outstanding[i], i, Len(outstanding), resp)
    /\ UNCHANGED <<earthquakes, selectedCoords, sidebarOpen, coordsRef, innerWidth,
                   refetches>>

\* (variant: the catch block also empties the collection)
CompleteFail_Clears(i, resp) ==
    /\ i \in 1..Len(outstanding)
    /\ resp.kind \in FailKinds
    /\ earthquakes' = <<>>
    /\ error' = FailedMessage
    /\ loading' = FALSE
    /\ outstanding' = RemoveAt(outstanding, i)
    /\ view' = Render(view, loading', error', earthquakes')
    /\ screen' = Screen(view', earthquakes', sidebarOpen, innerWidth)
    /\ flown' = FlyToCalls(view, view', coordsRef, coordsRef, selectedCoords)
    /\ lastOp' = Op("completeFail", outstanding[i], 0, FALSE)
    /\ lastDone' = Done(outstanding[i], i, Len(outstanding), resp)
    /\ UNCHANGED <<selectedCoords, sidebarOpen, coordsRef, innerWidth, issued, refetches>>

\* lines 44-48: fetch rejected, !res.ok, res.json() rejected, or data.features
\* is not an array; every one of them lands in the catch block
CompleteFail(i, resp) ==
    /\ i \in 1..Len(outstanding)
    /\ resp.kind \in FailKinds
    /\ error' = FailedMessage
    /\ loading' = FALSE
    /\ outstanding' = RemoveAt(outstanding, i)
    /\ view' = Render(view, loading', error', earthquakes)
    /\ screen' = Screen(view', earthquakes, sidebarOpen, innerWidth)
    /\ flown' = FlyToCalls(view, view', coordsRef, coordsRef, selectedCoords)
    /\ lastOp' = Op("completeFail", outstanding[i], 0, FALSE)
    /\ lastDone' = Done(outstanding[i], i, Len(outstanding), resp)
    /\ UNCHANGED <<earthquakes, selectedCoords, sidebarOpen, coordsRef, innerWidth,
                   issued, refetches>>

---------------------------------------------------------------------------
(* Handlers of the rendered controls.  A handler can run when its element   *)
(* is in the document and displayed.                                       *)

\* lines 70-75
Retry ==
    /\ "retry" \in Elements(view)
    /\ Invoke("retry")
    /\ refetches' = CountRefetch(refetches)

\* lines 98-103
Refresh ==
    /\ "refresh" \in Elements(view)
    /\ Invoke("refresh")
    /\ refetches' = CountRefetch(refetches)

\* (variant: the button only ever opens the sidebar)
ToggleSidebar_OpensOnly ==
    /\ ToggleDisplayed(view, innerWidth)
    /\ sidebarOpen' = TRUE
    /\ view' = Render(view, loading, error, earthquakes)
    /\ screen' = Screen(view', earthquakes, sidebarOpen', innerWidth)
    /\ flown' = FlyToCalls(view, view', coordsRef, coordsRef, selectedCoords)
    /\ lastOp' = Op("toggle", "none", 0, FALSE)
    /\ UNCHANGED <<earthquakes, loading, error, selectedCoords, coordsRef,
                   innerWidth, outstanding, issued, refetches, lastDone>>

\* lines 82-87: setSidebarOpen(!sidebarOpen)
ToggleSidebar ==
    /\ ToggleDisplayed(view, innerWidth)
    /\ sidebarOpen' = ~sidebarOpen
    /\ view' = Render(view, loading, error, earthquakes)
    /\ screen' = Screen(view', earthquakes, sidebarOpen', innerWidth)
    /\ flown' = FlyToCalls(view, view', coordsRef, coordsRef, selectedCoords)
    /\ lastOp' = Op("toggle", "none", 0, FALSE)
    /\ UNCHANGED <<earthquakes, loading, error, selectedCoords, coordsRef,
                   innerWidth, outstanding, issued, refetches, lastDone>>

\* lines 108 and 121: const [lon, lat] = eq.geometry.coordinates; [lat, lon]
LatLon(coordinates) == <<coordinates[2], coordinates[1]>>

\* (variant: the array held before is stored again)
NewArray_Reused(ref) == ref

\* line 121: the array literal [lat, lon] is a new object at every click; only
\* its identity against the one held before matters to the effect's dependency
NewArray(ref) == 1 - ref

\* line 122: setSidebarOpen(false)
SidebarAfterClick(open, w) == FALSE

\* lines 118-123: a fresh array is stored in selectedCoords
ClickEntry(i) ==
    /\ "list" \in Elements(view)
    /\ i \in 1..Len(ListPanel(earthquakes))
    /\ selectedCoords' = LatLon(ListPanel(earthquakes)[i].coordinates)
    /\ coordsRef' = NewArray(coordsRef)
    /\ sidebarOpen' = SidebarAfterClick(sidebarOpen, innerWidth)
    /\ view' = Render(view, loading, error, earthquakes)
    /\ screen' = Screen(view', earthquakes, sidebarOpen', innerWidth)
    /\ flown' = FlyToCalls(view, view', coordsRef, coordsRef', selectedCoords')
    /\ lastOp' = Op("click", "none", i, selectedCoords' = selectedCoords)
    /\ UNCHANGED <<earthquakes, loading, error, innerWidth, outstanding, issued,
                   refetches, lastDone>>

\* the user resizes the window or rotates the device; nothing re-renders, the
\* style sheet alone decides anew what is displayed
Resize(w) ==
    /\ w \in Widths
    /\ w # innerWidth
    /\ innerWidth' = w
    /\ screen' = Screen(view, earthquakes, sidebarOpen, innerWidth')
    /\ flown' = <<>>
    /\ lastOp' = Op("resize", "none", 0, FALSE)
    /\ UNCHANGED <<earthquakes, loading, error, selectedCoords, sidebarOpen,
                   coordsRef, outstanding, view, issued, refetches, lastDone>>

Next ==
    \/ \E i \in 1..2, resp \in Responses : CompleteOk(i, resp)
    \/ \E i \in 1..2, resp \in Responses : CompleteFail(i, resp)
    \/ Retry
    \/ Refresh
    \/ ToggleSidebar
    \/ \E i \in 1..ListLimit : ClickEntry(i)
    \/ \E w \in Widths : Resize(w)

Spec == Init /\ [][Next]_vars

NextOverlap ==
    \/ \E i \in 1..2, resp \in OverlapResponses : CompleteOk(i, resp)
    \/ \E i \in 1..2, resp \in OverlapResponses : CompleteFail(i, resp)
    \/ Retry
    \/ Refresh
    \/ ToggleSidebar
    \/ \E i \in 1..ListLimit : ClickEntry(i)
    \/ \E w \in Widths : Resize(w)

SpecOverlap == InitOverlap /\ [][NextOverlap]_vars

NextLong ==
    \/ \E i \in 1..2, resp \in LongResponses : CompleteOk(i, resp)
    \/ \E i \in 1..2, resp \in LongResponses : CompleteFail(i, resp)
    \/ Retry
    \/ Refresh
    \/ ToggleSidebar
    \/ \E i \in 1..ListLimit : ClickEntry(i)
    \/ \E w \in Widths : Resize(w)

\* the same component fed with collections around and beyond the list limit
SpecLong == Init /\ [][NextLong]_vars

TypeOK ==
    /\ earthquakes \in Feeds \cup {SortByTime(f) : f \in LongFeeds}
    /\ loading \in BOOLEAN
    /\ error \in {"", FailedMessage}
    /\ sidebarOpen \in BOOLEAN
    /\ coordsRef \in 0..1
    /\ innerWidth \in Widths
    /\ Len(outstanding) <= 2
    /\ view \in {"loading", "failed", "ready", "unmounted"}
    /\ Len(flown) <= 1

---------------------------------------------------------------------------
(* Vocabulary of the properties *)

FetchLoading == loading
FetchFailed == ~loading /\ error # ""
FetchReady == ~loading /\ error = ""

Completed == lastDone.resp.kind # "none"
Succeeded == lastDone.resp.kind = "ok"

IndexOf(s, x) == CHOOSE i \in 1..Len(s) : s[i] = x

IsPermutationOf(s, t) ==
    /\ Len(s) = Len(t)
    /\ \A x \in Features :
         Cardinality({i \in 1..Len(s) : s[i] = x}) = Cardinality({i \in 1..Len(t) : t[i] = x})

DescendingByTime(s) == \A i, j \in 1..Len(s) : i < j => s[i].time >= s[j].time

KeepsFeedOrderOnTies(s, feed) ==
    \A i, j \in 1..Len(feed) :
        (i < j /\ feed[i].time = feed[j].time) => IndexOf(s, feed[i]) < IndexOf(s, feed[j])

\* the four-tier partition of the data model and the legend's colour of each tier
TierOf(mag) ==
    IF mag # <<>> /\ mag[1] >= 60 THEN "severe"
    ELSE IF mag # <<>> /\ mag[1] >= 40 THEN "moderate"
    ELSE IF mag # <<>> /\ mag[1] >= 20 THEN "light"
    ELSE "minor"

LegendColor(tier) ==
    CASE tier = "severe" -> "red"
      [] tier = "moderate" -> "orange"
      [] tier = "light" -> "yellow"
      [] tier = "minor" -> "green"

HasNullMagnitude(eqs) == \E i \in 1..Len(eqs) : eqs[i].mag = <<>>

---------------------------------------------------------------------------
(* C1: in every reachable state exactly one of the loading, failed and      *)
(* ready views is rendered, which one is decided by the fetch state alone   *)
(* (loading flag and error message), and the list and the map are rendered  *)
(* with neither the busy indicator nor the failure message.                 *)
C1_OneViewMode ==
    /\ view \in {"loading", "failed", "ready"}
    /\ view = "loading" <=> FetchLoading
    /\ view = "failed" <=> FetchFailed
    /\ view = "ready" <=> FetchReady
    /\ Elements(view) \cap {"list", "map"} # {}
         => Elements(view) \cap {"busy", "message"} = {}

(* C2: a completion with a non-successful status leaves the state failed    *)
(* (non-empty message, loading false); Retry from the failed state sets     *)
(* loading and adds exactly one request; when a request issued by Retry     *)
(* succeeds the state is ready, the stored collection is the response       *)
(* sorted by time and the message is empty.                                 *)
C2_FailRetrySucceed ==
    [][ /\ (lastOp'.op = "completeFail" /\ lastDone'.resp.kind = "status")
             => (error' # "" /\ ~loading')
        /\ lastOp'.op = "retry"
             => /\ ~loading /\ error # ""
                /\ loading'
                /\ Len(outstanding') = Len(outstanding) + 1
                /\ outstanding'[Len(outstanding')] = "retry"
        /\ (lastOp'.op = "completeOk" /\ lastOp'.origin = "retry")
             => /\ ~loading' /\ error' = ""
                /\ IsPermutationOf(earthquakes', lastDone'.resp.features)
                /\ DescendingByTime(earthquakes')
      ]_vars

C2_Witness ==
    /\ lastOp.op = "completeOk" /\ lastOp.origin = "retry"
    /\ Len(earthquakes) >= 2
    /\ earthquakes # lastDone.resp.features

(* C3: while a request is outstanding the loading flag is true, the loading *)
(* view is the one rendered, and list selection, Refresh, Retry and the     *)
(* sidebar toggle are all disabled.                                         *)
C3_OutstandingMeansLoading ==
    outstanding # <<>> =>
        /\ loading
        /\ view = "loading"
        /\ Elements(view) \cap {"list", "refresh", "retry", "toggle"} = {}
        /\ ~ENABLED Retry
        /\ ~ENABLED Refresh
        /\ ~ENABLED ToggleSidebar
        /\ ~ENABLED (\E i \in 1..ListLimit : ClickEntry(i))

C3_Witness ==
    /\ outstanding = <<"refresh">>
    /\ earthquakes # <<>>
    /\ selectedCoords # <<>>

C5_EmptyFeedNotice ==
    (Succeeded /\ lastDone.resp.features = <<>> /\ FetchReady) =>
        /\ view = "ready"
        /\ earthquakes = <<>>
        /\ "map" \in Elements(view)
        /\ "notice" \in Elements(view)

(* C6: a click on a list entry collapses the sidebar when the viewport is   *)
(* narrower than the breakpoint and leaves sidebarOpen unchanged otherwise. *)
C6_ClickCollapsesOnlyWhenNarrow ==
    [][ lastOp'.op = "click" =>
          /\ innerWidth < Breakpoint => ~sidebarOpen'
          /\ innerWidth >= Breakpoint => sidebarOpen' = sidebarOpen
      ]_vars

(* C7: every click on a list entry stores that entry's [lat, lon] in        *)
(* selectedCoords as a new value and makes exactly one map.flyTo call, to   *)
(* those coordinates, also when the entry is the one already selected.      *)
C7_ClickFliesOnce ==
    [][ lastOp'.op = "click" =>
          LET eq  == earthquakes[lastOp'.entry]
              lon == eq.coordinates[1]
              lat == eq.coordinates[2]
          IN  /\ selectedCoords' = <<lat, lon>>
              /\ coordsRef' # coordsRef
              /\ Len(flown') = 1
              /\ flown'[1].target = <<lat, lon>>
      ]_vars

C7_Witness ==
    /\ lastOp.op = "click" /\ lastOp.same
    /\ Len(flown) = 1
    /\ flown[1].target = selectedCoords

(* C8: after a successful fetch the stored collection is a permutation of   *)
(* the response's features in non-increasing order of time, and events      *)
(* with equal time keep the order they had in the feed.                     *)
C8_StableDescendingSort ==
    Succeeded =>
        /\ IsPermutationOf(earthquakes, lastDone.resp.features)
        /\ DescendingByTime(earthquakes)
        /\ KeepsFeedOrderOnTies(earthquakes, lastDone.resp.features)

\* a feed of three with a tie given in descending id order and a later event last
C8_Witness ==
    /\ Succeeded
    /\ Len(lastDone.resp.features) = 3
    /\ lastDone.resp.features[1].id = 2
    /\ lastDone.resp.features[2].id = 1
    /\ lastDone.resp.features[3].id = 4
    /\ earthquakes[1].id = 4 /\ earthquakes[2].id = 2 /\ earthquakes[3].id = 1

(* C9: the colour of every rendered event, in its list entry and on its     *)
(* marker, is the colour of its tier in the four-tier partition (>= 6.0     *)
(* severe, >= 4.0 moderate, >= 2.0 light, otherwise minor), so the two      *)
(* always agree.                                                            *)
C9_FourTierColours ==
    view = "ready" =>
        /\ \A i \in 1..Len(earthquakes) :
             MarkerColor(earthquakes[i].mag) = LegendColor(TierOf(earthquakes[i].mag))
        /\ \A i \in 1..Len(ListPanel(earthquakes)) :
             /\ ListColor(earthquakes[i].mag) = LegendColor(TierOf(earthquakes[i].mag))
             /\ ListColor(earthquakes[i].mag) = MarkerColor(earthquakes[i].mag)

(* C10: an event whose magnitude is null is classified minor, and the ready *)
(* view holding it renders without an error.                                *)
C10_NullMagnitudeRenders ==
    (FetchReady /\ HasNullMagnitude(earthquakes)) =>
        /\ \A i \in 1..Len(earthquakes) :
             earthquakes[i].mag = <<>> => MarkerColor(earthquakes[i].mag) = "green"
        /\ view = "ready"

(* C11: in every ready state the list shows the first min(10, N) of the N   *)
(* stored events, in the stored order, the map shows one marker for each    *)
(* of the N events, and the stored collection still holds every event of    *)
(* the response it came from.                                               *)
C11_ListIsPrefixMarkersAreAll ==
    view = "ready" =>
        LET N == Len(earthquakes)
        IN  /\ Len(screen.list) = (IF N < 10 THEN N ELSE 10)
            /\ \A i \in 1..Len(screen.list) : screen.list[i] = earthquakes[i]
            /\ Len(screen.markers) = N
            /\ \A i \in 1..N : screen.markers[i] = earthquakes[i]
            /\ Succeeded => IsPermutationOf(earthquakes, lastDone.resp.features)

C11_Witness ==
    /\ view = "ready"
    /\ Len(earthquakes) = 12
    /\ Len(screen.list) = 10
    /\ Len(screen.markers) = 12
    /\ lastOp.op = "click" /\ lastOp.entry = 10

(* C12: the number of requests sent is always 1 (the mount) plus the number *)
(* of Refresh and Retry actions, and right after a failed completion no     *)
(* request is outstanding: the failure sent none.                           *)
C12_RequestsAreMountPlusRefetches ==
    /\ issued = 1 + refetches
    /\ lastOp.op = "completeFail" => outstanding = <<>>

C12_Witness ==
    /\ issued = 3 /\ refetches = 2
    /\ lastOp.op = "completeFail"

(* C13: a failed fetch leaves the stored collection exactly as it was; a    *)
(* successful one stores the features of its response, all of them and      *)
(* nothing else.                                                            *)
C13_AllOrNothing ==
    [][ /\ lastOp'.op = "completeFail" => earthquakes' = earthquakes
        /\ lastOp'.op = "completeOk" =>
             /\ IsPermutationOf(earthquakes', lastDone'.resp.features)
             /\ \A i \in 1..Len(earthquakes') :
                  \E j \in 1..Len(lastDone'.resp.features) :
                      earthquakes'[i] = lastDone'.resp.features[j]
      ]_vars

C13_Witness ==
    /\ lastOp.op = "completeFail" /\ lastDone.resp.kind = "badjson"
    /\ Len(earthquakes) = 3

(* C14: selectedCoords starts as null, changes only in a list-entry click   *)
(* and, once set, is never null again.                                      *)
C14_SelectionOnlyByClick ==
    /\ selectedCoords = <<>>
    /\ [][ /\ (selectedCoords' # selectedCoords \/ coordsRef' # coordsRef)
                 => lastOp'.op = "click"
           /\ selectedCoords # <<>> => selectedCoords' # <<>>
         ]_vars

C14_Witness ==
    /\ selectedCoords # <<>>
    /\ lastOp.op = "completeFail" /\ lastOp.origin = "refresh"

(* C15: in every ready state on a viewport at or above the breakpoint the   *)
(* sidebar is displayed, whatever sidebarOpen is.                           *)
C15_WideMeansSidebarShown ==
    (view = "ready" /\ innerWidth >= Breakpoint) => screen.sidebar

C15_Witness ==
    /\ view = "ready" /\ innerWidth >= Breakpoint
    /\ ~sidebarOpen /\ screen.sidebar
    /\ lastOp.op = "click"

(* C16: the sidebar toggle negates sidebarOpen and leaves the collection,   *)
(* the error message, the loading flag and selectedCoords as they were.     *)
C16_ToggleNegates ==
    [][ lastOp'.op = "toggle" =>
          /\ sidebarOpen' = ~sidebarOpen
          /\ UNCHANGED <<earthquakes, error, loading, selectedCoords, coordsRef>>
      ]_vars

\* a toggle that closed the sidebar: an earlier toggle had opened it
C16_Witness ==
    /\ lastOp.op = "toggle" /\ ~sidebarOpen
    /\ selectedCoords # <<>>

(* C17: at most one request is outstanding at any time, and while one is,   *)
(* neither Refresh nor Retry can be invoked.                                *)
C17_AtMostOneOutstanding ==
    /\ Len(outstanding) <= 1
    /\ outstanding # <<>> => (~ENABLED Refresh /\ ~ENABLED Retry)

C17_Witness ==
    /\ outstanding = <<"retry">>
    /\ earthquakes # <<>>

(* C18 as stated: map.flyTo is called only in a step that is a list-entry   *)
(* click.                                                                   *)
C18_FlyOnlyOnClick ==
    [][ Len(flown') > 0 => lastOp'.op = "click" ]_vars

(* C18 amended: map.flyTo is called, once and to selectedCoords, exactly in *)
(* the steps that leave the ready view on screen with a selection and are   *)
(* either a list-entry click or the ready view coming back on screen.       *)
C18_FlyOnClickOrRemount ==
    [][ /\ Len(flown') <= 1
        /\ Len(flown') = 1 <=>
             /\ view' = "ready"
             /\ selectedCoords' # <<>>
             /\ (lastOp'.op = "click" \/ view # "ready")
        /\ Len(flown') = 1 =>
             (flown'[1].target = selectedCoords' /\ flown'[1].zoom = 5)
      ]_vars

\* a Refresh that succeeded brought the map back and flew to the selection
C18_Witness ==
    /\ lastOp.op = "completeOk" /\ lastOp.origin = "refresh"
    /\ Len(flown) = 1
    /\ flown[1].target = selectedCoords

(* C19: once no request is outstanding the loading flag is false and the    *)
(* view on screen is the ready or the failed one.                           *)
C19_SettlesReadyOrFailed ==
    outstanding = <<>> => (~loading /\ view \in {"ready", "failed"})

(* C20: in every state that is not loading a re-fetch can be invoked:       *)
(* Retry when failed, Refresh when ready, an empty collection included.     *)
C20_RefetchEnabled ==
    ~loading =>
        /\ error # "" => ENABLED Retry
        /\ error = "" => ENABLED Refresh

====
